---- MODULE Spec2Model ----
(***************************************************************************)
(* The user / credential service of a12n-server: the users table and its   *)
(* finders, save (insert or update), password credentials (bcrypt) and     *)
(* TOTP validation, over one shared relational store.                      *)
(***************************************************************************)
EXTENDS Integers, Sequences, FiniteSets, TLC

(* ------------------------------ bounds -------------------------------- *)

\* Rows the users table may hold (inserts stop there).
MaxUsers == 2
\* Last value of the store clock (UNIX_TIMESTAMP()).
MaxTime == 1
\* createPassword calls that may be in flight or completed.
MaxCalls == 2

(* ------------------------------ values -------------------------------- *)

\* A property that an object does not have (no `id` on a NewUser); reading
\* it gives undefined.
Absent == -1

Identities == {"alice", "bob"}
Nicknames == {"Alice", "Alicia"}
Types == {1, 2}

\* Every id the store can assign, and one it never assigns.
UserIds == 1..(MaxUsers + 1)

\* bcrypt uses the first 72 bytes of the password only.
BcryptMaxBytes == 72

\* Byte strings are written as runs: <<[byte |-> b, count |-> n], ...>> is
\* n times the byte b, and so on; no run is empty and neighbours differ.
Run(b, n) == [byte |-> b, count |-> n]

\* Plaintext passwords: a short one, and two of 73 bytes that differ in
\* their last byte only.
Passwords ==
    {<<Run(1, 1), Run(2, 1)>>,
     <<Run(7, BcryptMaxBytes), Run(1, 1)>>,
     <<Run(7, BcryptMaxBytes), Run(2, 1)>>}

Secrets == {1, 2}
Tokens == {0, 1, 2}

\* The first n bytes of a byte string.
RECURSIVE FirstBytes(_, _)
FirstBytes(bytes, n) ==
    IF n = 0 \/ bytes = <<>> THEN <<>>
    ELSE IF Head(bytes).count >= n THEN <<Run(Head(bytes).byte, n)>>
    ELSE <<Head(bytes)>> \o FirstBytes(Tail(bytes), n - Head(bytes).count)

\* bcrypt.hash(password, 12): a salted one-way hash of the first 72 bytes.
\* The hash stands for itself: equal exactly when salt and hashed bytes are.
bcryptHash(password, salt) ==
    [salt |-> salt, digest |-> FirstBytes(password, BcryptMaxBytes)]

\* bcrypt.compare(password, hash): rehash with the hash's salt and compare.
bcryptCompare(password, hash) == bcryptHash(password, hash.salt) = hash

\* otplib.authenticator: the code of a secret at a time step.
totpCode(secret, t) == (secret + t) % 3

\* otplib.authenticator.check(token, secret) at time t.
authenticatorCheck(token, secret, t) == token = totpCode(secret, t)

VARIABLES
    users,           \* table users: sequence of rows, in store order
    autoIncrement,   \* next id the store assigns to a users row
    now,             \* the store clock, UNIX_TIMESTAMP()
    user_passwords,  \* table user_passwords: rows [user_id, password]
    user_totp,       \* table user_totp: rows [user_id, secret]
    calls,           \* createPassword calls: position and locals of each
    last             \* the operation that ran last: [op, arg, ret]

vars == <<users, autoIncrement, now, user_passwords, user_totp, calls, last>>

(* --------------------------- pure helpers ----------------------------- *)

\* recordToModel: the row without `active`, created turned into a Date (ms).
recordToModel(user) ==
    [id |-> user.id,
     identity |-> user.identity,
     nickname |-> user.nickname,
     created |-> user.created * 1000,
     type |-> user.type]

\* isExistingUser: the input's id is not undefined.
isExistingUser(user) == user.id # Absent

\* A thrown NotFound, and a returned value.
NotFound == [kind |-> "NotFound"]
Ok(v) == [kind |-> "ok", value |-> v]

\* SELECT ... FROM users WHERE active = 1
ActiveRows == SelectSeq(users, LAMBDA r : r.active)

\* findAll: every active row, in store order, as models.
findAll == [i \in 1..Len(ActiveRows) |-> recordToModel(ActiveRows[i])]

\* Faulty findById: the WHERE clause without active = 1.
findByIdIgnoringActive(id) ==
    LET result == SelectSeq(users, LAMBDA r : r.id = id)
    IN  IF Len(result) # 1 THEN NotFound ELSE Ok(recordToModel(result[1]))

\* findById: the one active row with that id, NotFound on 0 or several.
findById(id) ==
    LET result == SelectSeq(users, LAMBDA r : r.active /\ r.id = id)
    IN  IF Len(result) # 1 THEN NotFound ELSE Ok(recordToModel(result[1]))

\* Faulty findByIdentity: NotFound on no row only, else the first row.
findByIdentityFirst(identity) ==
    LET result == SelectSeq(users, LAMBDA r : r.active /\ r.identity = identity)
    IN  IF Len(result) = 0 THEN NotFound ELSE Ok(recordToModel(result[1]))

\* findByIdentity: the one active row with that identity.
findByIdentity(identity) ==
    LET result == SelectSeq(users, LAMBDA r : r.active /\ r.identity = identity)
    IN  IF Len(result) # 1 THEN NotFound ELSE Ok(recordToModel(result[1]))

\* The column default of users.active on insert.
DefaultActive == TRUE

\* INSERT INTO users SET ?, created = UNIX_TIMESTAMP()
InsertUser(table, id, user, t) ==
    Append(table, [id |-> id,
                   identity |-> user.identity,
                   nickname |-> user.nickname,
                   created |-> t,
                   type |-> user.type,
                   active |-> DefaultActive])

\* Faulty update: type is written too.
UpdateUserWithType(table, user) ==
    [i \in 1..Len(table) |->
        IF table[i].id = user.id
        THEN [table[i] EXCEPT !.identity = user.identity,
                              !.nickname = user.nickname,
                              !.type = user.type]
        ELSE table[i]]

\* Faulty update: the WHERE clause is missing.
UpdateUserAllRows(table, user) ==
    [i \in 1..Len(table) |->
        [table[i] EXCEPT !.identity = user.identity,
                         !.nickname = user.nickname]]

\* UPDATE users SET identity = ?, nickname = ? WHERE id = ?
UpdateUser(table, user) ==
    [i \in 1..Len(table) |->
        IF table[i].id = user.id
        THEN [table[i] EXCEPT !.identity = user.identity,
                              !.nickname = user.nickname]
        ELSE table[i]]

\* { id: insertId, ...user }: the input's own properties come last and win.
SpreadInsertId(insertId, user) ==
    [user EXCEPT !.id = IF user.id = Absent THEN insertId ELSE user.id]

\* What save returns.
saveResult(user) ==
    IF ~isExistingUser(user) THEN SpreadInsertId(autoIncrement, user) ELSE user

(* ------------------------------ inputs -------------------------------- *)

\* NewUser values: no id, no created.
NewUsers ==
    [id : {Absent}, identity : Identities, nickname : {"Alice"},
     created : {Absent}, type : {1}]

\* User values a caller may hold: any id, any fields, some Date.
ExistingUsers ==
    [id : UserIds, identity : Identities, nickname : Nicknames,
     created : {0}, type : Types]

\* The registration the credential scenarios use.
Registration ==
    [id |-> Absent, identity |-> "alice", nickname |-> "Alice",
     created |-> Absent, type |-> 1]

\* A save that renames user 1.
Rename ==
    [id |-> 1, identity |-> "bob", nickname |-> "Alicia", created |-> 0,
     type |-> 2]

(* ------------------------------ actions ------------------------------- *)

Init ==
    /\ users = <<>>
    /\ autoIncrement = 1
    /\ now = 0
    /\ user_passwords = <<>>
    /\ user_totp = <<>>
    /\ calls = [c \in 1..MaxCalls |-> [pc |-> "idle"]]
    /\ last = [op |-> "init", arg |-> Absent, ret |-> Absent]

\* The store clock advances.
Tick ==
    /\ now < MaxTime
    /\ now' = now + 1
    /\ last' = [op |-> "tick", arg |-> Absent, ret |-> Absent]
    /\ UNCHANGED <<users, autoIncrement, user_passwords, user_totp, calls>>

FindAll ==
    /\ last' = [op |-> "findAll", arg |-> Absent, ret |-> Ok(findAll)]
    /\ UNCHANGED <<users, autoIncrement, now, user_passwords, user_totp, calls>>

FindById(id) ==
    /\ last' = [op |-> "findById", arg |-> id, ret |-> findById(id)]
    /\ UNCHANGED <<users, autoIncrement, now, user_passwords, user_totp, calls>>

FindByIdentity(identity) ==
    /\ last' = [op |-> "findByIdentity", arg |-> identity,
                ret |-> findByIdentity(identity)]
    /\ UNCHANGED <<users, autoIncrement, now, user_passwords, user_totp, calls>>

Save(user) ==
    /\ IF ~isExistingUser(user)
       THEN /\ Len(users) < MaxUsers
            /\ users' = InsertUser(users, autoIncrement, user, now)
            /\ autoIncrement' = autoIncrement + 1
       ELSE /\ users' = UpdateUser(users, user)
            /\ UNCHANGED autoIncrement
    /\ last' = [op |-> "save", arg |-> user, ret |-> Ok(saveResult(user))]
    /\ UNCHANGED <<now, user_passwords, user_totp, calls>>

\* A user is deactivated: its active flag is cleared in the store.
Deactivate(id) ==
    /\ \E i \in 1..Len(users) : users[i].id = id /\ users[i].active
    /\ users' = [i \in 1..Len(users) |->
                    IF users[i].id = id
                    THEN [users[i] EXCEPT !.active = FALSE]
                    ELSE users[i]]
    /\ last' = [op |-> "deactivate", arg |-> id, ret |-> Absent]
    /\ UNCHANGED <<autoIncrement, now, user_passwords, user_totp, calls>>

\* SELECT password FROM user_passwords WHERE user_id = ?, as hashes.
hashesOf(id) ==
    LET rows == SelectSeq(user_passwords, LAMBDA row : row.user_id = id)
    IN  [i \in 1..Len(rows) |-> rows[i].password]

\* validatePassword: true on the first stored hash the password matches.
validatePassword(user, password) ==
    LET hashes == hashesOf(user.id)
    IN  \E i \in 1..Len(hashes) : bcryptCompare(password, hashes[i])

\* Faulty validateTotp: the secret is looked up without the user id.
validateTotpAnyRow(user, token) ==
    IF Len(user_totp) = 0 THEN FALSE
    ELSE authenticatorCheck(token, user_totp[1].secret, now)

\* validateTotp: false without a secret, else the check of the first one.
validateTotp(user, token) ==
    LET result == SelectSeq(user_totp, LAMBDA row : row.user_id = user.id)
    IN  IF Len(result) = 0 THEN FALSE
        ELSE authenticatorCheck(token, result[1].secret, now)

\* Faulty insert: the new password supersedes the user's older ones.
InsertPasswordSuperseding(table, id, hash) ==
    Append(SelectSeq(table, LAMBDA row : row.user_id # id),
           [user_id |-> id, password |-> hash])

\* INSERT INTO user_passwords SET user_id = ?, password = ?
InsertPassword(table, id, hash) ==
    Append(table, [user_id |-> id, password |-> hash])

\* The User values callers hold: one per users row, active or not.
KnownUsers == {recordToModel(users[i]) : i \in 1..Len(users)}

\* A User value with an id no row has.
Stranger ==
    [id |-> MaxUsers + 1, identity |-> "bob", nickname |-> "Alice",
     created |-> 0, type |-> 1]

\* createPassword is called: the arguments are bound. Calls are numbered in
\* the order they start.
CreatePasswordCall(c, user, password) ==
    /\ calls[c].pc = "idle"
    /\ IF c = 1 THEN TRUE ELSE calls[c - 1].pc # "idle"
    /\ calls' = [calls EXCEPT ![c] =
                    [pc |-> "hash", user |-> user, password |-> password]]
    /\ last' = [op |-> "createPassword.call", arg |-> c, ret |-> Absent]
    /\ UNCHANGED <<users, autoIncrement, now, user_passwords, user_totp>>

\* await bcrypt.hash(password, 12) completes, with the salt of this call.
CreatePasswordHash(c) ==
    /\ calls[c].pc = "hash"
    /\ calls' = [calls EXCEPT ![c] =
                    [pc |-> "insert", user |-> calls[c].user,
                     password |-> calls[c].password,
                     hash |-> bcryptHash(calls[c].password, c)]]
    /\ last' = [op |-> "createPassword.hash", arg |-> c, ret |-> Absent]
    /\ UNCHANGED <<users, autoIncrement, now, user_passwords, user_totp>>

\* await database.query(INSERT ...) completes and the call returns.
CreatePasswordInsert(c) ==
    /\ calls[c].pc = "insert"
    /\ user_passwords' =
           InsertPassword(user_passwords, calls[c].user.id, calls[c].hash)
    /\ calls' = [calls EXCEPT ![c] =
                    [pc |-> "done", user |-> calls[c].user,
                     password |-> calls[c].password]]
    /\ last' = [op |-> "createPassword.insert", arg |-> c, ret |-> Absent]
    /\ UNCHANGED <<users, autoIncrement, now, user_totp>>

ValidatePassword(user, password) ==
    /\ last' = [op |-> "validatePassword", arg |-> <<user.id, password>>,
                ret |-> validatePassword(user, password)]
    /\ UNCHANGED <<users, autoIncrement, now, user_passwords, user_totp, calls>>

ValidateTotp(user, token) ==
    /\ last' = [op |-> "validateTotp", arg |-> <<user.id, token>>,
                ret |-> validateTotp(user, token)]
    /\ UNCHANGED <<users, autoIncrement, now, user_passwords, user_totp, calls>>

\* A second factor is set up for a user that has none (outside this code).
ProvisionTotp(user, secret) ==
    /\ \A i \in 1..Len(user_totp) : user_totp[i].user_id # user.id
    /\ user_totp' = Append(user_totp, [user_id |-> user.id, secret |-> secret])
    /\ last' = [op |-> "provisionTotp", arg |-> user.id, ret |-> Absent]
    /\ UNCHANGED <<users, autoIncrement, now, user_passwords, calls>>

NextRepo ==
    \/ Tick
    \/ FindAll
    \/ \E id \in UserIds : FindById(id)
    \/ \E identity \in Identities : FindByIdentity(identity)
    \/ \E user \in NewUsers \cup ExistingUsers : Save(user)
    \/ \E id \in UserIds : Deactivate(id)

SpecRepo == Init /\ [][NextRepo]_vars

\* The credential operations, concurrent createPassword calls included.
NextCred ==
    \/ \E c \in 1..MaxCalls, user \in KnownUsers, password \in Passwords :
          CreatePasswordCall(c, user, password)
    \/ \E c \in 1..MaxCalls : CreatePasswordHash(c)
    \/ \E c \in 1..MaxCalls : CreatePasswordInsert(c)
    \/ \E user \in KnownUsers, password \in Passwords :
          ValidatePassword(user, password)
    \/ \E user \in {Registration} : Save(user)

Spec == Init /\ [][NextCred]_vars

\* Deactivation among the finders, registrations and credentials.
NextDeact ==
    \/ \E id \in UserIds : Deactivate(id)
    \/ \E user \in {Registration, Rename} : Save(user)
    \/ FindAll
    \/ \E id \in UserIds : FindById(id)
    \/ \E identity \in Identities : FindByIdentity(identity)
    \/ \E c \in 1..MaxCalls, user \in KnownUsers :
          CreatePasswordCall(c, user, <<Run(1, 1), Run(2, 1)>>)
    \/ \E c \in 1..MaxCalls : CreatePasswordHash(c)
    \/ \E c \in 1..MaxCalls : CreatePasswordInsert(c)

SpecDeact == Init /\ [][NextDeact]_vars

\* The second factor: provisioning from outside, validation over time.
NextTotp ==
    \/ Tick
    \/ \E user \in {Registration} : Save(user)
    \/ \E user \in KnownUsers, secret \in Secrets : ProvisionTotp(user, secret)
    \/ \E user \in KnownUsers \cup {Stranger}, token \in Tokens :
          ValidateTotp(user, token)

SpecTotp == Init /\ [][NextTotp]_vars

(* ------------------------- the users table ---------------------------- *)

\* The positions of the rows that match a key, counted without the query.
ActiveWithId(id) == {i \in 1..Len(users) : users[i].active /\ users[i].id = id}
ActiveWithIdentity(identity) ==
    {i \in 1..Len(users) : users[i].active /\ users[i].identity = identity}
RowsWithId(table, id) == {i \in 1..Len(table) : table[i].id = id}

\* C2: findById(k) and findByIdentity(k) return a user exactly when one
\* active row matches k, that row's model with id / identity k; with no
\* active match, or several, they fail with NotFound.
C2_ResolveExactlyOne ==
    /\ \A id \in UserIds :
          IF Cardinality(ActiveWithId(id)) = 1
          THEN /\ findById(id).kind = "ok"
               /\ findById(id).value.id = id
               /\ \E i \in ActiveWithId(id) :
                     findById(id).value = recordToModel(users[i])
          ELSE findById(id) = NotFound
    /\ \A identity \in Identities :
          IF Cardinality(ActiveWithIdentity(identity)) = 1
          THEN /\ findByIdentity(identity).kind = "ok"
               /\ findByIdentity(identity).value.identity = identity
               /\ \E i \in ActiveWithIdentity(identity) :
                     findByIdentity(identity).value = recordToModel(users[i])
          ELSE findByIdentity(identity) = NotFound
    /\ last.op = "findById" => last.ret = findById(last.arg)
    /\ last.op = "findByIdentity" => last.ret = findByIdentity(last.arg)

\* C2 witness: findByIdentity has failed on an identity two active rows
\* share, while findById still resolves one of them.
C2_Witness ==
    /\ last.op = "findByIdentity"
    /\ last.ret = NotFound
    /\ Cardinality(ActiveWithIdentity(last.arg)) = 2
    /\ \E i \in ActiveWithIdentity(last.arg) : findById(users[i].id).kind = "ok"

\* C5, as claimed: save of an input without id inserts exactly one row and
\* returns a User with that row's id, an id no row had before, the input's
\* identity, nickname and type, and a created Date at or after the call.
C5_InsertReturnsFreshUser ==
    [][(last'.op = "save" /\ ~isExistingUser(last'.arg)) =>
          /\ Len(users') = Len(users) + 1
          /\ SubSeq(users', 1, Len(users)) = users
          /\ last'.ret.kind = "ok"
          /\ last'.ret.value.id = users'[Len(users')].id
          /\ RowsWithId(users, last'.ret.value.id) = {}
          /\ last'.ret.value.identity = last'.arg.identity
          /\ last'.ret.value.nickname = last'.arg.nickname
          /\ last'.ret.value.type = last'.arg.type
          /\ last'.ret.value.created # Absent
          /\ last'.ret.value.created >= now * 1000]_vars

\* C6: save of an input with the id of an active user sets that row's
\* identity and nickname to the input's and keeps its id, created, type (and
\* active flag), whatever type and created the input carries; findById on
\* the id then returns the new identity and nickname, the old type and
\* created.
C6_UpdateKeepsCreatedAndType ==
    [][(last'.op = "save" /\ isExistingUser(last'.arg)
            /\ ActiveWithId(last'.arg.id) # {}) =>
          /\ Len(users') = Len(users)
          /\ \A i \in ActiveWithId(last'.arg.id) :
                /\ users'[i].identity = last'.arg.identity
                /\ users'[i].nickname = last'.arg.nickname
                /\ users'[i].id = users[i].id
                /\ users'[i].created = users[i].created
                /\ users'[i].type = users[i].type
                /\ users'[i].active = users[i].active
                /\ \A id \in UserIds : id = last'.arg.id =>
                      findById(id)' =
                      Ok([id |-> users[i].id,
                          identity |-> last'.arg.identity,
                          nickname |-> last'.arg.nickname,
                          created |-> users[i].created * 1000,
                          type |-> users[i].type])]_vars

\* C6 witness: an update has run on an active user whose stored type and
\* created differ from the input's, and the row carries the new nickname.
C6_Witness ==
    /\ last.op = "save"
    /\ isExistingUser(last.arg)
    /\ \E i \in ActiveWithId(last.arg.id) :
          /\ users[i].type # last.arg.type
          /\ users[i].created * 1000 # last.arg.created
          /\ users[i].identity = last.arg.identity
          /\ users[i].nickname = "Alicia"
          /\ findById(last.arg.id).value.nickname = "Alicia"

\* C7, as claimed: no two active rows of users have the same identity.
C7_IdentityUniqueAmongActive ==
    \A i, j \in 1..Len(users) :
        (i # j /\ users[i].active /\ users[j].active) =>
            users[i].identity # users[j].identity

\* C10: save of an input with an id inserts nothing, changes no row but the
\* one with that id and no active flag, leaves the table as it is when no
\* row has the id, and returns the input as given without NotFound.
C10_UpdateTouchesOnlyItsRow ==
    [][(last'.op = "save" /\ isExistingUser(last'.arg)) =>
          /\ Len(users') = Len(users)
          /\ autoIncrement' = autoIncrement
          /\ \A i \in 1..Len(users) :
                /\ users[i].id # last'.arg.id => users'[i] = users[i]
                /\ users'[i].active = users[i].active
                /\ users'[i].id = users[i].id
          /\ RowsWithId(users, last'.arg.id) = {} => users' = users
          /\ last'.ret = Ok(last'.arg)]_vars

\* C10 witness: an update has run for an id no row has, beside rows of
\* other ids, one of them deactivated, and has returned its input.
C10_Witness ==
    /\ last.op = "save"
    /\ isExistingUser(last.arg)
    /\ RowsWithId(users, last.arg.id) = {}
    /\ Len(users) = MaxUsers
    /\ \E i \in 1..Len(users) : ~users[i].active
    /\ \E i \in 1..Len(users) : users[i].identity # last.arg.identity
    /\ last.ret = Ok(last.arg)

(* --------------------------- credentials ------------------------------ *)

\* The createPassword calls that have completed.
DoneCalls == {c \in 1..MaxCalls : calls[c].pc = "done"}

\* C1, as claimed: validatePassword(u, p) is true exactly when a completed
\* createPassword call stored p for u.id: false without rows or without a
\* match, and never true through another user's credential.
C1_ValidIffAdded ==
    last.op = "validatePassword" =>
       (last.ret <=>
          \E c \in DoneCalls :
             calls[c].user.id = last.arg[1] /\ calls[c].password = last.arg[2])

\* C3: no step removes or changes a row of user_passwords, and a password
\* that validates for a user validates for it after every step.
\* (validatePassword reads user_passwords only: a step that leaves the
\* table alone leaves every result alone.)
C3_PasswordsAccumulate ==
    [][/\ Len(user_passwords') >= Len(user_passwords)
       /\ SubSeq(user_passwords', 1, Len(user_passwords)) = user_passwords
       /\ user_passwords' # user_passwords =>
             \A u \in KnownUsers \cup {Stranger}, p \in Passwords :
                validatePassword(u, p) => validatePassword(u, p)']_vars

\* C3 witness: two passwords were added for one user, one after the other
\* was stored, a validation has returned true, and both still validate.
C3_Witness ==
    /\ last.op = "validatePassword"
    /\ last.ret = TRUE
    /\ \E c, d \in DoneCalls :
          /\ calls[c].user.id = calls[d].user.id
          /\ calls[c].password # calls[d].password
          /\ calls[c].user.id = last.arg[1]
          /\ calls[c].password = last.arg[2]
          /\ validatePassword(calls[c].user, calls[c].password)
          /\ validatePassword(calls[d].user, calls[d].password)
          /\ Len(hashesOf(calls[c].user.id)) = 2

\* C9: however the steps of concurrent createPassword calls interleave,
\* the store holds one row per completed call, each with that call's user
\* and hash, and the password of every completed call validates.
C9_ConcurrentAddsAllLand ==
    /\ Len(user_passwords) = Cardinality(DoneCalls)
    /\ \A c \in DoneCalls :
          /\ \E i \in 1..Len(user_passwords) :
                /\ user_passwords[i].user_id = calls[c].user.id
                /\ user_passwords[i].password = bcryptHash(calls[c].password, c)
          /\ validatePassword(calls[c].user, calls[c].password)

\* C9 witness: every call was for the same user and has completed, and the
\* call that started last stored its row first.
C9_Witness ==
    /\ DoneCalls = 1..MaxCalls
    /\ \A c \in DoneCalls : calls[c].user.id = calls[1].user.id
    /\ user_passwords[1].password.salt = MaxCalls
    /\ \E c, d \in DoneCalls : calls[c].password # calls[d].password

(* --------------------------- deactivation ----------------------------- *)

InactiveRows(table) == {i \in 1..Len(table) : ~table[i].active}
PasswordRowsOf(table, id) == SelectSeq(table, LAMBDA row : row.user_id = id)

\* A deactivated row stays: present, inactive, with its id, created and
\* type, and with every password row it had.
Persists(i) ==
    /\ i <= Len(users')
    /\ ~users'[i].active
    /\ users'[i].id = users[i].id
    /\ users'[i].created = users[i].created
    /\ users'[i].type = users[i].type
    /\ \E n \in 0..Len(user_passwords') :
          PasswordRowsOf(user_passwords, users[i].id) =
             SubSeq(PasswordRowsOf(user_passwords', users[i].id), 1, n)

\* C4, as claimed: a deactivated user is in no findAll result, findById on
\* its id and findByIdentity on its identity fail with NotFound, and its
\* row and password rows stay in the store.
C4_DeactivatedNotFound ==
    /\ [](\A i \in InactiveRows(users) :
             /\ \A k \in 1..Len(findAll) : findAll[k].id # users[i].id
             /\ findById(users[i].id) = NotFound
             /\ findByIdentity(users[i].identity) = NotFound)
    /\ [][\A i \in InactiveRows(users) : Persists(i)]_vars

\* C4, amended: a deactivated user is in no findAll result, findById on its
\* id fails with NotFound, and findByIdentity on its identity fails with
\* NotFound or returns another, active user; its row and password rows stay
\* in the store.
C4_DeactivatedNeverReturned ==
    /\ [](\A i \in InactiveRows(users) :
             /\ \A k \in 1..Len(findAll) : findAll[k].id # users[i].id
             /\ findById(users[i].id) = NotFound
             /\ \/ findByIdentity(users[i].identity) = NotFound
                \/ findByIdentity(users[i].identity).value.id # users[i].id)
    /\ [][\A i \in InactiveRows(users) : Persists(i)]_vars

\* C4 witness: a user with a stored password was deactivated, and
\* findByIdentity on its identity has since returned another user.
C4_Witness ==
    /\ last.op = "findByIdentity"
    /\ last.ret.kind = "ok"
    /\ \E i \in InactiveRows(users) :
          /\ users[i].identity = last.arg
          /\ last.ret.value.id # users[i].id
          /\ Len(PasswordRowsOf(user_passwords, users[i].id)) > 0
          /\ findById(users[i].id) = NotFound

(* --------------------------- second factor ---------------------------- *)

HasSecret(id) == \E i \in 1..Len(user_totp) : user_totp[i].user_id = id

\* C8: for a user without a row in user_totp, validateTotp returns false
\* for every token, and no operation but the provisioning from outside
\* writes user_totp.
C8_NoSecretNoTotp ==
    /\ [](/\ \A u \in KnownUsers \cup {Stranger}, token \in Tokens :
                ~HasSecret(u.id) => validateTotp(u, token) = FALSE
          /\ (last.op = "validateTotp" /\ ~HasSecret(last.arg[1])) =>
                last.ret = FALSE)
    /\ [][last'.op # "provisionTotp" => user_totp' = user_totp]_vars

\* C8 witness: a token that is right for a user with a secret has been
\* refused for a user without one.
C8_Witness ==
    /\ last.op = "validateTotp"
    /\ ~HasSecret(last.arg[1])
    /\ last.ret = FALSE
    /\ \E u \in KnownUsers :
          HasSecret(u.id) /\ validateTotp(u, last.arg[2]) = TRUE

====
